---- MODULE Spec2Model ----
(***************************************************************************)
(* NimbusScroll (src/src/main.rs): the capture pipeline and its lifecycle. *)
(*                                                                         *)
(* Three kinds of thread are modelled, each by its position (pc) and its   *)
(* posted-message queue:                                                   *)
(*   main     main(), on_wm_command(), start_thread()                      *)
(*   capture  raw_main(), one instance at a time, numbered 1, 2, ...       *)
(*   filter   hook_main(), one worker per capture instance                 *)
(* A thread id is the instance number of the thread; 0 is the initial      *)
(* value of RAW_THREAD_ID and names no thread.                             *)
(*                                                                         *)
(* Floating point (f32) is modelled in fixed point: a velocity v is the    *)
(* integer v * VelScale, a decay / emission factor f the integer           *)
(* f * FacScale, both truncated toward zero.                               *)
(***************************************************************************)
EXTENDS Integers, Sequences, FiniteSets, TLC

VARIABLES
    \* ---- main thread
    mainpc,             \* "boot" | "idle" | "publish" | "exited"
    mainQ,              \* messages posted to the main thread (hwnd = NULL)
    trayStatus,         \* the tray tip suffix: "" | "Active" | "Inactive"
    mainQuit,           \* PostQuitMessage was called
    \* ---- shared statics (main.rs:61-76)
    MAIN_THREAD_ID,
    RAW_THREAD_ID,
    RAW_THREAD_HANDLE,  \* 0 is None, i is Some(handle of capture instance i)
    RAW_THREAD_PENDING,
    GLOBAL_CONFIG,
    ini,                \* ./options.ini: <<>> (no file) or <<the saved keys>>
    \* ---- capture thread (the current instance)
    rawInst,            \* number of capture threads created so far
    rawpc,
    rawQ,               \* posted thread messages of the current instance
    hwnd,               \* the hidden message window exists
    registered,         \* raw mouse input is registered
    hook_active,
    state,              \* struct State
    scroll_acu,
    timer,
    \* ---- filter workers, one per capture instance
    hookpc,
    hookQuit,           \* a WM_QUIT is waiting in the worker's queue
    hh,                 \* history: what each worker did to its filter, in order
    \* ---- operating system
    clip,               \* the ClipCursor rectangle in force, or NoClip
    hookLast,           \* the last event offered to hook_proc, and its outcome
    \* ---- history (observation only, never read by the program)
    mh,                 \* of the main thread
    rh,                 \* of the current capture instance
    \* ---- the locks of the statics (main.rs:72-76), statement by statement
    lk

mainVars   == <<mainpc, mainQ, trayStatus, mainQuit>>
sharedVars == <<MAIN_THREAD_ID, RAW_THREAD_ID, RAW_THREAD_HANDLE,
                RAW_THREAD_PENDING, GLOBAL_CONFIG, ini>>
rawLocals  == <<hook_active, state, scroll_acu, timer>>
rawVars    == <<rawInst, rawpc, rawQ, hwnd, registered, hook_active, state,
                scroll_acu, timer>>
hookVars   == <<hookpc, hookQuit, hh>>
vars       == <<mainpc, mainQ, trayStatus, mainQuit,
                MAIN_THREAD_ID, RAW_THREAD_ID, RAW_THREAD_HANDLE,
                RAW_THREAD_PENDING, GLOBAL_CONFIG, ini,
                rawInst, rawpc, rawQ, hwnd, registered, hook_active, state,
                scroll_acu, timer, hookpc, hookQuit, hh, clip, hookLast,
                mh, rh, lk>>

----------------------------------------------------------------------------
(* Bounds of the model *)

MaxInst  == 2   \* capture threads created in one run
MaxDev   == 2   \* raw input messages delivered to one capture instance
MaxTicks == 1   \* timer messages delivered to one capture instance
MaxKinDev   == 3    \* the same two bounds where the kinetics are followed
MaxKinTicks == 2
MaxDecayTicks == 230    \* timer messages after a drag, while momentum decays

Insts    == 1 .. MaxInst

----------------------------------------------------------------------------
(* Program constants *)

MainTid         == 100                  \* GetCurrentThreadId() of main
WM_QUIT         == "WM_QUIT"            \* 0x0012
WM_RAW_STOPPED  == "WM_RAW_STOPPED"
WM_RAW_STARTED  == "WM_RAW_STARTED"
WM_HOOK_STARTED == "WM_HOOK_STARTED"

NoClip     == <<>>
ScreenRect == <<0, 0, 1920, 1080>>      \* what GetClipCursor reports unclipped

DefaultConfig ==
    [decay |-> 3, sens_y |-> 18, sens_x |-> 0, step_y |-> 120, step_x |-> 120,
     flick |-> 0, think |-> 0]

Max(a, b) == IF a >= b THEN a ELSE b
Min(a, b) == IF a <= b THEN a ELSE b
Clamp(v, lo, hi) == Max(lo, Min(v, hi))

\* What the settings dialog can have written to options.ini (save()).
IniSet ==
    { [decay |-> 3, sensY |-> 18, sensX |-> 0, stepY |-> 120, stepX |-> 120,
       flick |-> 0, think |-> 0],
      [decay |-> 3, sensY |-> 1, sensX |-> 0, stepY |-> 120, stepX |-> 120,
       flick |-> 1, think |-> 0] }

\* Files that make the decay vanish or fast
KinIniSet ==
    IniSet \cup
    { [decay |-> 0, sensY |-> 18, sensX |-> 0, stepY |-> 120, stepX |-> 120,
       flick |-> 0, think |-> 0],
      [decay |-> 60, sensY |-> 1, sensX |-> 0, stepY |-> 120, stepX |-> 120,
       flick |-> 0, think |-> 0] }

\* start_thread, lines 915-921: every key read with the current value as the
\* default, then clamped.
LoadConfig(file, cur) ==
    IF file = <<>> THEN
        [cur EXCEPT !.decay = Max(cur.decay, 0),
                    !.step_y = Max(cur.step_y, 0),
                    !.step_x = Max(cur.step_x, 0),
                    !.flick = Clamp(cur.flick, 0, 1),
                    !.think = Clamp(cur.think, 0, 1)]
    ELSE
        [decay  |-> Max(file[1].decay, 0),
         sens_y |-> file[1].sensY,
         sens_x |-> file[1].sensX,
         step_y |-> Max(file[1].stepY, 0),
         step_x |-> Max(file[1].stepX, 0),
         flick  |-> Clamp(file[1].flick, 0, 1),
         think  |-> Clamp(file[1].think, 0, 1)]

\* State::new
NewState ==
    [vel |-> <<0, 0>>, res |-> <<0, 0>>, rect |-> <<0, 0, 0, 0>>,
     is_button_scrolling |-> FALSE, cancel_pending |-> FALSE]

Msg(m, from) == [m |-> m, from |-> from]

----------------------------------------------------------------------------
(* Fixed-point arithmetic standing for f32 *)

VelScale == 1000        \* a velocity v is stored as v * VelScale
FacScale == 1000000     \* a factor f is stored as f * FacScale
ExpTerms == 8           \* terms of the series of exp

Abs(a) == IF a < 0 THEN -a ELSE a

\* a / b truncated toward zero, b > 0 (Rust's integer division and `as i32`)
TruncDiv(a, b) == IF a >= 0 THEN a \div b ELSE -((-a) \div b)

\* a * f / FacScale truncated toward zero, for a factor 0 <= f <= FacScale,
\* split so that no intermediate product leaves 32 bits.
MulFacNat(a, f) ==
    LET ah == a \div 1000  al == a % 1000
        fh == f \div 1000  fl == f % 1000
    IN  ah * fh + ((ah * fl + al * fh + ((al * fl) \div 1000)) \div 1000)
MulFac(a, f) == IF a >= 0 THEN MulFacNat(a, f) ELSE -MulFacNat(-a, f)

\* exp(-num/den) * FacScale by its series, num/den < 1
RECURSIVE Gcd(_, _)
Gcd(a, b) == IF b = 0 THEN a ELSE Gcd(b, a % b)

RECURSIVE ExpSeries(_, _, _, _)
ExpSeries(num, den, k, term) ==
    IF k > ExpTerms THEN 0
    ELSE term + ExpSeries(num, den, k + 1, -TruncDiv(term * num, den * k))
ExpNeg(num, den) ==
    LET g == Gcd(num, den) IN ExpSeries(num \div g, den \div g, 1, FacScale)

----------------------------------------------------------------------------
(* Kinetics Engine: State::step and State::flush *)

Qpf         == 10000    \* QueryPerformanceFrequency: counts per second
interval_ms == 10

\* raw_main, line 1161: a tick is evaluated when more than interval_ms elapsed
TickDue(dt) == dt * 1000 > Qpf * interval_ms

\* GetClipCursor: the rectangle in force, the whole screen when unclipped
GetClipCursor(c) == IF c = NoClip THEN ScreenRect ELSE c

\* Faulty variant: step leaves the confinement as it finds it
StepClipKeeps(st, c) == c

\* step, lines 112-118: the confinement is re-applied while dragging
StepClip(st, c) ==
    IF st.is_button_scrolling /\ GetClipCursor(c) # st.rect THEN st.rect ELSE c

\* Faulty variant: the velocity does not decay
NoDecay(cfg, dt) == FacScale

\* step, lines 125-129: f0 = exp(-dt * mu), f1 = (1 - f0) / mu.
\* With mu = 0 the quotient is 0.0 / 0.0, a NaN (F1IsNaN).
DecayF0(cfg, dt) == ExpNeg(dt * cfg.decay, Qpf)
F1IsNaN(cfg) == cfg.decay = 0
DecayF1(cfg, dt) ==
    IF F1IsNaN(cfg) THEN 0
    ELSE (FacScale - DecayF0(cfg, dt)) \div cfg.decay

\* step, lines 119-124: vel += sens * acu
StepAdd(cfg, st, acu) ==
    << st.vel[1] + cfg.sens_x * acu[1] * VelScale,
       st.vel[2] + cfg.sens_y * acu[2] * VelScale >>

\* step, lines 131-133: send = vel * f1, a NaN on both axes when f1 is
StepSend(cfg, v, dt) ==
    [nan |-> F1IsNaN(cfg),
     v   |-> IF F1IsNaN(cfg) THEN <<0, 0>>
             ELSE << MulFac(v[1], DecayF1(cfg, dt)),
                     MulFac(v[2], DecayF1(cfg, dt)) >>]

\* Faulty variant: no velocity counts as rest
NeverAtRest(v) == FALSE

\* step, lines 137-140: |v|^2 < 0.1 snaps the velocity to zero
AtRest(v) ==
    /\ Abs(v[1]) < VelScale
    /\ Abs(v[2]) < VelScale
    /\ (v[1] * v[1] + v[2] * v[2]) * 10 < VelScale * VelScale

\* step, lines 134-140: vel *= f0, then the snap
StepVel(cfg, v, dt) ==
    LET f0 == DecayF0(cfg, dt)
        w  == << MulFac(v[1], f0), MulFac(v[2], f0) >>
    IN  IF AtRest(w) THEN <<0, 0>> ELSE w

\* flush, lines 147-150: `as i32` truncates toward zero and maps NaN to 0
AsI32(nan, x) == IF nan THEN 0 ELSE TruncDiv(x, VelScale)

\* Faulty variant: flush forgets the horizontal wheel
FlushVerticalOnly(send) ==
    LET sy == AsI32(send.nan, send.v[2])
    IN  IF sy = 0 THEN <<>> ELSE << [flags |-> "WHEEL", data |-> sy] >>

\* flush, lines 151-186: the batch handed to SendInput, <<>> when nothing is sent
FlushBatch(send) ==
    LET sx == AsI32(send.nan, send.v[1])
        sy == AsI32(send.nan, send.v[2])
    IN  IF sx = 0 /\ sy = 0 THEN <<>>
        ELSE (IF sy # 0 THEN << [flags |-> "WHEEL", data |-> sy] >> ELSE <<>>)
             \o (IF sx # 0 THEN << [flags |-> "HWHEEL", data |-> sx] >> ELSE <<>>)

----------------------------------------------------------------------------
(* Suppression Filter: hook_proc *)

WM_MBUTTONDOWN == 519   \* 0x207
WM_MBUTTONUP   == 520   \* 0x208
Marker         == "MAGIC_WORD"      \* MAGIC_WORD.as_ptr() as usize

\* Faulty variants of hook_proc: the tag is not looked at; the injected flags
\* are not looked at
hook_proc_no_tag(ev) ==
    IF ev.w_param \in {WM_MBUTTONDOWN, WM_MBUTTONUP} /\ ev.l_param.flags % 4 = 0
    THEN [ret |-> "1", next |-> <<>>]
    ELSE [ret |-> "CallNextHookEx",
          next |-> << [code |-> ev.code, w_param |-> ev.w_param,
                       l_param |-> ev.l_param] >>]
hook_proc_no_flags(ev) ==
    IF /\ ev.w_param \in {WM_MBUTTONDOWN, WM_MBUTTONUP}
       /\ ev.l_param.dw_extra_info # Marker
    THEN [ret |-> "1", next |-> <<>>]
    ELSE [ret |-> "CallNextHookEx",
          next |-> << [code |-> ev.code, w_param |-> ev.w_param,
                       l_param |-> ev.l_param] >>]

\* hook_proc, lines 938-947.  ev = [code, w_param, l_param], l_param pointing
\* at [flags, dw_extra_info].  Returns 1 (swallowed) or calls the next hook.
hook_proc(ev) ==
    IF /\ ev.w_param \in {WM_MBUTTONDOWN, WM_MBUTTONUP}
       /\ (ev.l_param.flags % 4 = 0 \/ ev.l_param.dw_extra_info # Marker)
    THEN [ret |-> "1", next |-> <<>>]
    ELSE [ret |-> "CallNextHookEx",
          next |-> << [code |-> ev.code, w_param |-> ev.w_param,
                       l_param |-> ev.l_param] >>]

----------------------------------------------------------------------------
(* Initial state: the process has entered main() *)

\* The latest loop iteration that was not cut short: the message (ev), the
\* velocity and the accumulator the handler left (vel0, acu), whether the
\* tick was evaluated (due) and then its dt, what step added to the velocity
\* (add), the batch flush handed to SendInput, whether SendInput took it (ok)
\* and whether past was set to now (stamp).
NewLast ==
    [ev |-> "none", vel0 |-> <<0, 0>>, acu |-> <<0, 0>>, due |-> FALSE,
     dt |-> 0, add |-> <<0, 0>>, batch |-> <<>>, ok |-> TRUE, stamp |-> FALSE,
     clipIn |-> NoClip]

NewRh ==
    [failedAt |-> "none",       \* the start step that failed
     acq |-> <<>>, rel |-> <<>>,\* resources acquired / released, in order
     startedPosted |-> FALSE, stoppedPosted |-> FALSE,
     devSeen |-> 0,             \* raw input messages delivered
     timers |-> 0,              \* timer messages delivered
     ready |-> FALSE,           \* a WM_HOOK_STARTED was read by the loop
     ignored |-> FALSE,         \* a device event arrived before readiness
     nodev |-> FALSE,           \* the latest iteration read an event that
                                \* carried no device handle
     handled |-> FALSE,         \* a device event was decoded
     ticked |-> FALSE,          \* a tick was evaluated
     sent |-> FALSE,            \* a scroll batch was handed to SendInput
     keys |-> FALSE,            \* a keystroke pair was injected
     pairs |-> 0,               \* keystroke pairs injected
     lifts |-> 0,               \* button-ups handled while is_button_scrolling
     owed |-> <<0, 0>>,         \* deltas added, less those reset by a
                                \* button-down, less those passed to step
                                \* (counted once per tick that passes them)
     snapped |-> FALSE,         \* a tick took the velocity from non-zero to zero
     failed |-> FALSE,          \* SendInput refused a scroll batch
     last |-> NewLast,          \* the latest iteration that reached line 1157
     cfg |-> DefaultConfig]     \* GLOBAL_CONFIG when the thread was created

NewMh ==
    [lastReq |-> "none",        \* latest pause / resume sent to the stored thread
     armed |-> "no",            \* the latest request was a resume issued while
                                \* a stop was pending: "wait" until main handles
                                \* that thread's WM_RAW_STOPPED, then "done"
     restarts |-> 0,            \* start_thread calls since that resume
     spawned |-> 0,             \* capture threads created since that resume
     stopLog |-> <<>>,          \* what main's latest step, if it handled
                                \* WM_RAW_STOPPED, did
     cold |-> <<>>,             \* where main's latest step, if it was a
                                \* resume with no thread stored, began
     liveWrite |-> FALSE]       \* GLOBAL_CONFIG was written while a capture
                                \* thread had not yet posted WM_RAW_STOPPED

----------------------------------------------------------------------------
(* The locks of the statics, statement by statement.  A thread is a
   sequence of steps: acq (Mutex::lock), use (one read or write of the value
   behind the lock), call (a system call made while the guard is alive), rel
   (the guard is dropped), spawn (CreateThread) and getmsg (the thread waits
   in GetMessageA for its next message). *)

LockNames == {"PROCESS_MUTEX", "MAIN_THREAD_ID", "RAW_THREAD_ID",
              "RAW_THREAD_HANDLE", "RAW_THREAD_PENDING"}
LockThreads == {"main", "raw", "hook"}

Prim(k, x, line) == [k |-> k, x |-> x, line |-> line]

\* `*X.lock().unwrap() = v;` and `let v = X.lock().unwrap().is_some();`:
\* the guard is a temporary of the statement
Assign(line, x) ==
    << Prim("acq", x, line), Prim("use", x, line), Prim("rel", x, line) >>

\* `PostThreadMessageA(*X.lock().unwrap(), ...);`: the guard lives to the end
\* of the statement, over the call
PostWith(line, x) ==
    << Prim("acq", x, line), Prim("use", x, line),
       Prim("call", "PostThreadMessageA", line), Prim("rel", x, line) >>

\* `if let Some(h) = *X.lock().unwrap() { CloseHandle(h); }`: the guard of
\* the scrutinee lives to the end of the block
IfLetClose(line, x) ==
    << Prim("acq", x, line), Prim("use", x, line),
       Prim("call", "CloseHandle", line + 1), Prim("rel", x, line + 2) >>

\* Faulty variant: the guard of an `if` condition lives through the block
IfGuardKept == FALSE

\* The guard in the condition of an `if` is dropped before the block is
\* entered
IfGuardDropped == TRUE

\* `if <X.lock() ...> { body }`, the branch taken
IfThen(line, x, body) ==
    IF IfGuardDropped
    THEN Assign(line, x) \o body
    ELSE << Prim("acq", x, line), Prim("use", x, line) >> \o body
         \o << Prim("rel", x, line) >>

\* start_thread, lines 924-932: CreateThread succeeds (the ids are stored)
\* or fails
StartThreadSteps ==
    { << Prim("spawn", "raw", 924) >> \o Assign(931, "RAW_THREAD_ID")
         \o Assign(932, "RAW_THREAD_HANDLE"),
      << >> }

\* main, lines 436-618: up to the message loop
MainBootSteps ==
    { Assign(436, "PROCESS_MUTEX") \o Assign(447, "MAIN_THREAD_ID") \o st :
        st \in StartThreadSteps }

\* What main does with one message of its loop (line 629): WM_RAW_STOPPED
\* (lines 640-647), pause (733-736), resume and save (742-750), the tray
\* menu (825), elevation (777-779)
MainHandlerSteps ==
    { IfLetClose(640, "RAW_THREAD_HANDLE") \o Assign(643, "RAW_THREAD_HANDLE")
          \o IfThen(644, "RAW_THREAD_PENDING", body) :
        body \in {<<>>} \cup { Assign(645, "RAW_THREAD_PENDING") \o st :
                                   st \in StartThreadSteps } }
    \cup { IfThen(733, "RAW_THREAD_HANDLE", body) :
             body \in { <<>>, Assign(734, "RAW_THREAD_PENDING")
                              \o PostWith(735, "RAW_THREAD_ID") } }
    \cup { IfThen(742, "RAW_THREAD_HANDLE", body) :
             body \in { Assign(743, "RAW_THREAD_PENDING")
                        \o PostWith(744, "RAW_THREAD_ID") }
                      \cup { Assign(746, "RAW_THREAD_PENDING") \o st :
                                st \in StartThreadSteps } }
    \cup { Assign(825, "RAW_THREAD_HANDLE"),
           IfLetClose(777, "PROCESS_MUTEX") }

\* main, lines 605-611: the cleanup when the message loop ends
MainExitSteps == IfLetClose(609, "PROCESS_MUTEX")

\* raw_main: the start fails (cleanup of lines 972-974 alone) or the worker
\* is created (line 1036), readiness reported (line 1048), the loop waits
\* (line 1064) and the cleanup reports the stop
RawSteps ==
    { PostWith(973, "MAIN_THREAD_ID"),
      << Prim("spawn", "hook", 1036) >> \o PostWith(1048, "MAIN_THREAD_ID")
         \o << Prim("getmsg", "raw", 1064), Prim("getmsg", "raw", 1064) >>
         \o PostWith(973, "MAIN_THREAD_ID") }

\* hook_main: the installation fails (cleanup of lines 950-952 alone) or
\* readiness is posted (line 962), the loop waits (line 964) and the cleanup
\* posts the quit
HookSteps ==
    { PostWith(951, "RAW_THREAD_ID"),
      PostWith(962, "RAW_THREAD_ID") \o << Prim("getmsg", "hook", 964) >>
         \o PostWith(951, "RAW_THREAD_ID") }

StepsOf(t) == IF t = "raw" THEN RawSteps ELSE HookSteps

\* No lock is held; main is about to start, the other threads do not exist
LkInit ==
    [owner |-> [l \in LockNames |-> "none"],
     prog  |-> [t \in LockThreads |-> <<>>],
     acc   |-> [t \in LockThreads |-> 0],
     main  |-> "boot"]

InitWith(file) ==
    /\ mainpc = "boot"
    /\ mainQ = <<>>
    /\ trayStatus = ""
    /\ mainQuit = FALSE
    /\ MAIN_THREAD_ID = 0
    /\ RAW_THREAD_ID = 0
    /\ RAW_THREAD_HANDLE = 0
    /\ RAW_THREAD_PENDING = FALSE
    /\ GLOBAL_CONFIG = DefaultConfig
    /\ ini = file
    /\ rawInst = 0
    /\ rawpc = "done"
    /\ rawQ = <<>>
    /\ hwnd = FALSE
    /\ registered = FALSE
    /\ hook_active = FALSE
    /\ state = NewState
    /\ scroll_acu = <<0, 0>>
    /\ timer = 0
    /\ hookpc = [i \in Insts |-> "none"]
    /\ hookQuit = [i \in Insts |-> FALSE]
    /\ hh = [i \in Insts |-> <<>>]
    /\ clip = NoClip
    /\ hookLast = <<>>
    /\ mh = NewMh
    /\ rh = NewRh
    /\ lk = LkInit

\* No options.ini at the start
Init == InitWith(<<>>)

Running == mainpc # "exited"

----------------------------------------------------------------------------
(* Posting thread messages *)

\* The capture thread has a message queue from its first USER call
\* (SetThreadDpiAwarenessContext) until it leaves its message loop; what is
\* posted to it later is never read.
RawQueuePcs == {"window", "register", "spawn", "notify", "loop"}

HasQuit(q) == \E k \in 1 .. Len(q) : q[k].m = WM_QUIT

\* PostThreadMessageA(id, ...) aimed at a capture thread: it fails when id
\* names no live thread with a queue.  The loop ends at the first WM_QUIT it
\* reads, so a message posted behind a WM_QUIT is never read and is not kept.
PostToRaw(id, msg) ==
    IF id = rawInst /\ rawpc \in RawQueuePcs /\ ~HasQuit(rawQ)
    THEN Append(rawQ, msg)
    ELSE rawQ

\* The filter worker has a queue from SetWindowsHookExA until it returns.
HookQueuePcs == {"ready", "loop"}
HookInstalledPcs == {"ready", "loop", "unhook"}

----------------------------------------------------------------------------
(* Lifecycle Coordinator: main(), on_wm_command(), start_thread() *)

\* CreateThread succeeds or fails; it fails once MaxInst threads were created
CreateThreadOutcomes == IF rawInst < MaxInst THEN BOOLEAN ELSE {FALSE}

\* start_thread, lines 910-929: load the configuration, create the thread.
\* ctx is the caller: "boot" (line 618), "stopped" (line 646), "command"
\* (line 747, which calls quit() on failure).  h is the history so far.
StartThread(ctx, h0) ==
    /\ GLOBAL_CONFIG' = LoadConfig(ini, GLOBAL_CONFIG)
    /\ \E ok \in CreateThreadOutcomes :
        LET h == [h0 EXCEPT !.liveWrite = @ \/ (rawInst > 0 /\ ~rh.stoppedPosted)]
        IN
        IF ok THEN
            /\ rawInst' = rawInst + 1
            /\ rawpc' = "dpi"
            /\ rawQ' = <<>>
            /\ hwnd' = FALSE
            /\ registered' = FALSE
            /\ hook_active' = FALSE
            /\ state' = NewState
            /\ scroll_acu' = <<0, 0>>
            /\ timer' = 0
            /\ rh' = [NewRh EXCEPT !.cfg = LoadConfig(ini, GLOBAL_CONFIG)]
            /\ mainpc' = "publish"
            /\ mainQuit' = mainQuit
            /\ mh' = [h EXCEPT !.restarts = IF h.armed = "no" THEN 0 ELSE @ + 1,
                                !.spawned = IF h.armed = "no" THEN 0 ELSE @ + 1]
        ELSE
            /\ mainpc' = "idle"
            /\ mainQuit' = (mainQuit \/ ctx = "command")
            /\ mh' = [h EXCEPT !.restarts = IF h.armed = "no" THEN 0 ELSE @ + 1]
            /\ UNCHANGED <<rawVars, rh>>

\* main, lines 447 and 618: record the main thread id, first start
MainBoot ==
    /\ mainpc = "boot"
    /\ MAIN_THREAD_ID' = MainTid
    /\ StartThread("boot", mh)
    /\ UNCHANGED <<mainQ, trayStatus, RAW_THREAD_ID, RAW_THREAD_HANDLE,
                   RAW_THREAD_PENDING, ini, hookVars, clip, hookLast, lk>>

\* start_thread, lines 930-934: publish the new thread's id and handle
StartPublish ==
    /\ mainpc = "publish"
    /\ RAW_THREAD_ID' = rawInst
    /\ RAW_THREAD_HANDLE' = rawInst
    /\ mainpc' = "idle"
    /\ mh' = [mh EXCEPT !.lastReq = "none", !.stopLog = <<>>, !.cold = <<>>]
    /\ UNCHANGED <<mainQ, trayStatus, mainQuit, MAIN_THREAD_ID,
                   RAW_THREAD_PENDING, GLOBAL_CONFIG, ini, rawVars, hookVars,
                   clip, hookLast, lk, rh>>

\* main, line 644: restart when the pending flag is set
RestartWanted == RAW_THREAD_PENDING
\* main, line 645: the flag is cleared before the restart
PendingAfterRestart == FALSE

\* Faulty variant: the handle survives the stop
HandleKept == RAW_THREAD_HANDLE

\* main, line 643: the stored handle after WM_RAW_STOPPED
HandleAfterStop == 0

\* main, lines 631-647: WM_RAW_STOPPED
MainRawStopped ==
    /\ mainpc = "idle"
    /\ mainQ # <<>>
    /\ Head(mainQ).m = WM_RAW_STOPPED
    /\ mainQ' = Tail(mainQ)
    /\ trayStatus' = "Inactive"
    /\ RAW_THREAD_HANDLE' = HandleAfterStop
    /\ LET h == [mh EXCEPT !.lastReq = "none",
                           !.armed = IF @ = "wait" THEN "done" ELSE @,
                           !.stopLog = << [req |-> mh.lastReq,
                                           started |-> RestartWanted,
                                           failed |-> rh.failedAt # "none",
                                           inst |-> rawInst] >>,
                           !.cold = <<>>]
       IN  IF RestartWanted THEN
               /\ RAW_THREAD_PENDING' = PendingAfterRestart
               /\ StartThread("stopped", h)
           ELSE
               /\ mh' = h
               /\ UNCHANGED <<RAW_THREAD_PENDING, mainpc, mainQuit,
                              GLOBAL_CONFIG, rawVars, rh>>
    /\ UNCHANGED <<MAIN_THREAD_ID, RAW_THREAD_ID, ini, hookVars, clip,
                   hookLast, lk>>

\* Faulty variant: WM_RAW_STARTED leaves the tip as it was
TipUnchanged == trayStatus

\* main, line 650: the status shown once WM_RAW_STARTED is handled
TipOnStarted == "Active"

\* main, lines 648-657: WM_RAW_STARTED
MainRawStarted ==
    /\ mainpc = "idle"
    /\ mainQ # <<>>
    /\ Head(mainQ).m = WM_RAW_STARTED
    /\ mainQ' = Tail(mainQ)
    /\ trayStatus' = TipOnStarted
    /\ mh' = [mh EXCEPT !.stopLog = <<>>, !.cold = <<>>]
    /\ UNCHANGED <<mainpc, mainQuit, sharedVars, rawVars, hookVars, clip,
                   hookLast, lk, rh>>

\* Faulty variants: pause asks for a restart, resume forgets to
PauseAsksRestart == TRUE
ResumeForgets == FALSE

\* on_wm_command, line 734: what pause writes to the pending flag
PauseFlag == FALSE
\* on_wm_command, line 743: what resume writes to the pending flag
ResumeFlag == TRUE

\* A request made while a handle is stored, as the history sees it
Requested(kind) ==
    [mh EXCEPT !.lastReq = IF RAW_THREAD_HANDLE # 0 THEN kind ELSE @,
               !.armed = IF kind = "resume" /\ RAW_THREAD_HANDLE # 0
                            /\ mh.lastReq # "none"
                         THEN "wait" ELSE "no",
               !.restarts = 0,
               !.spawned = 0,
               !.stopLog = <<>>, !.cold = <<>>]

\* on_wm_command, lines 732-737: id 104, pause
Pause ==
    /\ mainpc = "idle"
    /\ IF RAW_THREAD_HANDLE # 0 THEN
           /\ RAW_THREAD_PENDING' = PauseFlag
           /\ rawQ' = PostToRaw(RAW_THREAD_ID, Msg(WM_QUIT, 0))
       ELSE
           UNCHANGED <<RAW_THREAD_PENDING, rawQ>>
    /\ mh' = Requested("pause")
    /\ UNCHANGED <<mainVars, MAIN_THREAD_ID, RAW_THREAD_ID, RAW_THREAD_HANDLE,
                   GLOBAL_CONFIG, ini, rawInst, rawpc, hwnd, registered,
                   rawLocals, hookVars, clip, hookLast, lk, rh>>

\* Faulty variant: resume never sees the stored thread
ThreadNeverActive == FALSE

\* on_wm_command, line 742: a capture thread is stored
ThreadActive == RAW_THREAD_HANDLE # 0

\* Faulty variant: a resume with no thread stored asks for a restart
ColdResumeArms == TRUE

\* on_wm_command, line 746: the pending flag when no thread is stored
ColdResumeFlag == FALSE

\* on_wm_command, lines 738-751: id 105 (resume) and id 106 (save, then
\* resume); save() rewrites every key of options.ini from the dialog.
Resume(file) ==
    /\ mainpc = "idle"
    /\ ini' = file
    /\ IF ThreadActive THEN
           /\ RAW_THREAD_PENDING' = ResumeFlag
           /\ rawQ' = PostToRaw(RAW_THREAD_ID, Msg(WM_QUIT, 0))
           /\ mh' = Requested("resume")
           /\ UNCHANGED <<mainpc, mainQuit, GLOBAL_CONFIG, rawInst, rawpc,
                          hwnd, registered, rawLocals, rh>>
       ELSE
           /\ RAW_THREAD_PENDING' = ColdResumeFlag
           /\ StartThread("command",
                          [Requested("resume") EXCEPT
                              !.cold = << [inst |-> rawInst,
                                           quit |-> mainQuit] >>])
    /\ UNCHANGED <<mainQ, trayStatus, MAIN_THREAD_ID, RAW_THREAD_ID,
                   RAW_THREAD_HANDLE, hookVars, clip, hookLast, lk>>

\* on_wm_command id 105: resume
ResumeCmd == Resume(ini)

\* on_wm_command id 106: save() writes the dialog's values, then resume
SaveCmd == \E f \in IniSet : Resume(<<f>>)

\* on_wm_command id 100 and quit(), lines 792-797
Quit ==
    /\ mainpc = "idle"
    /\ ~mainQuit
    /\ mainQuit' = TRUE
    /\ mh' = [mh EXCEPT !.stopLog = <<>>, !.cold = <<>>]
    /\ UNCHANGED <<mainpc, mainQ, trayStatus, sharedVars, rawVars, hookVars,
                   clip, hookLast, lk, rh>>

\* main, line 629: GetMessageA returns 0 once the queue is drained after
\* PostQuitMessage; the process ends.
MainExit ==
    /\ mainpc = "idle"
    /\ mainQuit
    /\ mainQ = <<>>
    /\ mainpc' = "exited"
    /\ mh' = [mh EXCEPT !.stopLog = <<>>, !.cold = <<>>]
    /\ UNCHANGED <<mainQ, trayStatus, mainQuit, sharedVars, rawVars, hookVars,
                   clip, hookLast, lk, rh>>

MainNext ==
    \/ MainBoot
    \/ StartPublish
    \/ MainRawStopped
    \/ MainRawStarted
    \/ MainExit

UserNext ==
    \/ Pause
    \/ ResumeCmd
    \/ Quit

----------------------------------------------------------------------------
(* Capture Loop: raw_main, start and teardown *)

\* The scoped cleanups (defer!) run in reverse order of declaration, so a
\* return enters the teardown chain
\*     td_hook -> td_unreg -> td_window -> td_post -> done
\* at the cleanup declared last before it.
\* Faulty variants: a failed registration returns past the cleanup of the
\* window, a failed spawn carries on to the notification
RegisterFailSkipsWindow == "td_post"
SpawnFailCarriesOn      == "notify"

AfterDpiFail      == "td_post"      \* line 979
AfterWindowFail   == "td_post"      \* line 998
AfterRegisterFail == "td_window"    \* line 1021, after the defer of line 1001
AfterSpawnFail    == "td_unreg"     \* line 1039, after the defer of line 1024
AfterLoop         == "td_hook"      \* line 1175, after the defer of line 1043

RawFail(step, next) ==
    /\ rawpc' = next
    /\ rh' = [rh EXCEPT !.failedAt = step]

\* raw_main, lines 977-980
RawDpi ==
    /\ Running /\ rawpc = "dpi"
    /\ \E ok \in BOOLEAN :
        IF ok THEN rawpc' = "window" /\ rh' = rh
        ELSE RawFail("dpi", AfterDpiFail)
    /\ UNCHANGED <<mainVars, sharedVars, rawInst, rawQ, hwnd, registered,
                   rawLocals, hookVars, clip, hookLast, lk, mh>>

\* raw_main, lines 982-1003
RawWindow ==
    /\ Running /\ rawpc = "window"
    /\ \E ok \in BOOLEAN :
        IF ok THEN
            /\ hwnd' = TRUE
            /\ rawpc' = "register"
            /\ rh' = [rh EXCEPT !.acq = Append(@, "window")]
        ELSE
            /\ RawFail("window", AfterWindowFail)
            /\ hwnd' = hwnd
    /\ UNCHANGED <<mainVars, sharedVars, rawInst, rawQ, registered,
                   rawLocals, hookVars, clip, hookLast, lk, mh>>

\* raw_main, lines 1005-1032
RawRegister ==
    /\ Running /\ rawpc = "register"
    /\ \E ok \in BOOLEAN :
        IF ok THEN
            /\ registered' = TRUE
            /\ rawpc' = "spawn"
            /\ rh' = [rh EXCEPT !.acq = Append(@, "rawinput")]
        ELSE
            /\ RawFail("register", AfterRegisterFail)
            /\ registered' = registered
    /\ UNCHANGED <<mainVars, sharedVars, rawInst, rawQ, hwnd,
                   rawLocals, hookVars, clip, hookLast, lk, mh>>

\* raw_main, lines 1034-1046: spawn the filter worker
RawSpawn ==
    /\ Running /\ rawpc = "spawn"
    /\ \E ok \in BOOLEAN :
        IF ok THEN
            /\ hookpc' = [hookpc EXCEPT ![rawInst] = "start"]
            /\ rawpc' = "notify"
            /\ rh' = [rh EXCEPT !.acq = Append(@, "hook")]
        ELSE
            /\ RawFail("spawn", AfterSpawnFail)
            /\ hookpc' = hookpc
    /\ UNCHANGED <<mainVars, sharedVars, rawInst, rawQ, hwnd, registered,
                   rawLocals, hookQuit, hh, clip, hookLast, lk, mh>>

\* raw_main, line 1048: report CaptureStarted, then enter the loop
RawNotify ==
    /\ Running /\ rawpc = "notify"
    /\ mainQ' = Append(mainQ, Msg(WM_RAW_STARTED, rawInst))
    /\ rawpc' = "loop"
    /\ rh' = [rh EXCEPT !.startedPosted = TRUE]
    /\ UNCHANGED <<mainpc, trayStatus, mainQuit, sharedVars, rawInst, rawQ,
                   hwnd, registered, rawLocals, hookVars, clip, hookLast, lk,
                   mh>>

\* raw_main, lines 1043-1046: the handle is closed and a WM_QUIT is posted to
\* the filter worker; the worker is not waited for.  The post fails when the
\* worker has no queue yet or has returned.
RawTdHook ==
    /\ Running /\ rawpc = "td_hook"
    /\ hookQuit' = [hookQuit EXCEPT
                      ![rawInst] = @ \/ hookpc[rawInst] \in HookQueuePcs]
    /\ rawpc' = "td_unreg"
    /\ rh' = [rh EXCEPT !.rel = Append(@, "hook")]
    /\ UNCHANGED <<mainVars, sharedVars, rawInst, rawQ, hwnd, registered,
                   rawLocals, hookpc, hh, clip, hookLast, lk, mh>>

\* raw_main, lines 1024-1032
RawTdUnreg ==
    /\ Running /\ rawpc = "td_unreg"
    /\ registered' = FALSE
    /\ rawpc' = "td_window"
    /\ rh' = [rh EXCEPT !.rel = Append(@, "rawinput")]
    /\ UNCHANGED <<mainVars, sharedVars, rawInst, rawQ, hwnd,
                   rawLocals, hookVars, clip, hookLast, lk, mh>>

\* raw_main, lines 1001-1003
RawTdWindow ==
    /\ Running /\ rawpc = "td_window"
    /\ hwnd' = FALSE
    /\ rawpc' = "td_post"
    /\ rh' = [rh EXCEPT !.rel = Append(@, "window")]
    /\ UNCHANGED <<mainVars, sharedVars, rawInst, rawQ, registered,
                   rawLocals, hookVars, clip, hookLast, lk, mh>>

\* raw_main, lines 972-974: report CaptureStopped, the thread returns
RawTdPost ==
    /\ Running /\ rawpc = "td_post"
    /\ mainQ' = Append(mainQ, Msg(WM_RAW_STOPPED, rawInst))
    /\ rawpc' = "done"
    /\ rh' = [rh EXCEPT !.stoppedPosted = TRUE]
    /\ UNCHANGED <<mainpc, trayStatus, mainQuit, sharedVars, rawInst, rawQ,
                   hwnd, registered, rawLocals, hookVars, clip, hookLast, lk,
                   mh>>

----------------------------------------------------------------------------
(* Suppression Filter worker: hook_main *)

\* Faulty variant: the worker returns from its loop without uninstalling
LoopEndsWithoutUnhook == "exit"

\* hook_main: where the worker goes when its loop ends (the cleanup of lines
\* 959-961 runs first), and after that cleanup (the one of lines 950-952)
AfterHookLoop == "unhook"
AfterUnhook   == "exit"

Did(i, what) == [hh EXCEPT ![i] = Append(@, what)]

\* hook_main, lines 954-958: install the filter
HookInstall(i) ==
    /\ Running /\ hookpc[i] = "start"
    /\ \E ok \in BOOLEAN :
        /\ hookpc' = [hookpc EXCEPT ![i] = IF ok THEN "ready" ELSE "exit"]
        /\ hh' = IF ok THEN Did(i, "install") ELSE hh
    /\ UNCHANGED <<mainVars, sharedVars, rawVars, hookQuit, clip, hookLast, lk,
                   mh, rh>>

\* hook_main, line 962: the thread the readiness signal is posted to
ReadyTarget(i) == RAW_THREAD_ID

\* hook_main, line 962: report readiness
HookReady(i) ==
    /\ Running /\ hookpc[i] = "ready"
    /\ rawQ' = PostToRaw(ReadyTarget(i), Msg(WM_HOOK_STARTED, i))
    /\ hookpc' = [hookpc EXCEPT ![i] = "loop"]
    /\ hh' = Did(i, "ready")
    /\ UNCHANGED <<mainVars, sharedVars, rawInst, rawpc, hwnd, registered,
                   rawLocals, hookQuit, clip, hookLast, lk, mh, rh>>

\* hook_main, lines 963-968: GetMessageA returns 0 on WM_QUIT, the loop ends
HookGetQuit(i) ==
    /\ Running /\ hookpc[i] = "loop"
    /\ hookQuit[i]
    /\ hookQuit' = [hookQuit EXCEPT ![i] = FALSE]
    /\ hookpc' = [hookpc EXCEPT ![i] = AfterHookLoop]
    /\ hh' = Did(i, "quit")
    /\ UNCHANGED <<mainVars, sharedVars, rawVars, clip, hookLast, lk, mh, rh>>

\* hook_main, lines 959-961: uninstall the filter
HookUnhook(i) ==
    /\ Running /\ hookpc[i] = "unhook"
    /\ hookpc' = [hookpc EXCEPT ![i] = AfterUnhook]
    /\ hh' = Did(i, "unhook")
    /\ UNCHANGED <<mainVars, sharedVars, rawVars, hookQuit, clip, hookLast, lk,
                   mh, rh>>

\* hook_main, lines 950-952: post WM_QUIT to the capture thread and return
HookExit(i) ==
    /\ Running /\ hookpc[i] = "exit"
    /\ rawQ' = PostToRaw(RAW_THREAD_ID, Msg(WM_QUIT, i))
    /\ hookpc' = [hookpc EXCEPT ![i] = "done"]
    /\ hookQuit' = [hookQuit EXCEPT ![i] = FALSE]
    /\ hh' = Did(i, "exit")
    /\ UNCHANGED <<mainVars, sharedVars, rawInst, rawpc, hwnd, registered,
                   rawLocals, clip, hookLast, lk, mh, rh>>

HookNext ==
    \E i \in Insts :
        \/ HookInstall(i)
        \/ HookReady(i)
        \/ HookGetQuit(i)
        \/ HookUnhook(i)
        \/ HookExit(i)

----------------------------------------------------------------------------
(* Capture Loop: the message loop of raw_main, lines 1063-1173 *)

RI_MOUSE_WHEEL       == 1024    \* 0x0400
RI_MOUSE_BUTTON_DOWN == 16      \* the trigger button went down
RI_MOUSE_BUTTON_UP   == 32      \* the trigger button went up
WHEEL_DELTA          == 120

HasBit(flags, b) == (flags \div b) % 2 = 1

\* The raw input messages (WM_INPUT) the model delivers.  got: GetRawInputData
\* returned data; dev: header.h_device is not null; data: us_button_data;
\* lx, ly: l_last_x, l_last_y; cx, cy: what GetCursorPos reports.
DevEv(got, dev, flags, data, lx, ly, cx, cy) ==
    [got |-> got, dev |-> dev, flags |-> flags, data |-> data,
     lx |-> lx, ly |-> ly, cx |-> cx, cy |-> cy]
DevEvents ==
    { DevEv(TRUE, TRUE, RI_MOUSE_WHEEL, WHEEL_DELTA, 0, 0, 7, 9),
      DevEv(TRUE, TRUE, RI_MOUSE_BUTTON_DOWN, 0, 0, 0, 7, 9),
      DevEv(TRUE, TRUE, RI_MOUSE_BUTTON_UP, 0, 0, 0, 7, 9),
      DevEv(TRUE, TRUE, 0, 0, 0, 50, 7, 9),
      DevEv(TRUE, FALSE, RI_MOUSE_WHEEL, WHEEL_DELTA, 0, 0, 7, 9),
      DevEv(FALSE, TRUE, 0, 0, 0, 0, 7, 9) }

\* Elapsed counter values read at the end of an iteration (now - past)
DtSet == {50, 101}

\* raw_main, line 1061: never set after its initialisation
unclip_pending == FALSE

\* The locals a device event works on
\* (keys, kind, lift: what the handler did, for the history)
Locals(st, acu, tm, c) == [state |-> st, acu |-> acu, timer |-> tm, clip |-> c,
                           keys |-> 0, kind |-> "idle", lift |-> 0]

\* raw_main, lines 1092-1100: wheel notification
OnWheel(cfg, ev, L) ==
    [L EXCEPT !.acu = << L.acu[1],
                         L.acu[2] + TruncDiv(ev.data * cfg.sens_y, WHEEL_DELTA) >>,
              !.timer = 1,
              !.kind = "wheel"]

\* Faulty variant: the trigger goes down and the pointer is left free
OnDownUnclipped(cfg, ev, L) ==
    LET r == << ev.cx, ev.cy, ev.cx + 1, ev.cy + 1 >>
    IN  [L EXCEPT !.state = [L.state EXCEPT !.is_button_scrolling = TRUE,
                                            !.cancel_pending = TRUE,
                                            !.rect = r],
                  !.acu = <<0, 0>>,
                  !.timer = 1,
                  !.kind = "down"]

\* raw_main, lines 1101-1114: trigger button down
OnDown(cfg, ev, L) ==
    LET r == << ev.cx, ev.cy, ev.cx + 1, ev.cy + 1 >>
    IN  [L EXCEPT !.state = [L.state EXCEPT !.is_button_scrolling = TRUE,
                                            !.cancel_pending = TRUE,
                                            !.rect = r],
                  !.acu = <<0, 0>>,
                  !.clip = r,
                  !.timer = 1,
                  !.kind = "down"]

\* Faulty variant: every button-up injects the keystroke pair
OnUpAlwaysKeys(cfg, ev, L) ==
    LET s1 == [L.state EXCEPT !.is_button_scrolling = FALSE]
        s2 == IF cfg.flick = 0
              THEN [s1 EXCEPT !.vel = <<0, 0>>, !.res = <<0, 0>>]
              ELSE s1
    IN  [L EXCEPT !.state = [s2 EXCEPT !.cancel_pending = FALSE],
                  !.timer = IF cfg.flick = 0 THEN 0 ELSE @,
                  !.keys = 1,
                  !.clip = NoClip,
                  !.kind = "up",
                  !.lift = IF L.state.is_button_scrolling THEN 1 ELSE 0]

\* raw_main, lines 1115-1148: trigger button up.  KillTimer fails on timer 0.
OnUp(cfg, ev, L) ==
    LET s1 == [L.state EXCEPT !.is_button_scrolling = FALSE]
        s2 == IF cfg.flick = 0
              THEN [s1 EXCEPT !.vel = <<0, 0>>, !.res = <<0, 0>>]
              ELSE s1
    IN  [L EXCEPT !.state = [s2 EXCEPT !.cancel_pending = FALSE],
                  !.timer = IF cfg.flick = 0 THEN 0 ELSE @,
                  !.keys = IF L.state.cancel_pending THEN 1 ELSE 0,
                  !.clip = NoClip,
                  !.kind = "up",
                  !.lift = IF L.state.is_button_scrolling THEN 1 ELSE 0]

\* raw_main, lines 1149-1152: drag motion
OnMove(cfg, ev, L) ==
    [L EXCEPT !.acu = << L.acu[1] + ev.lx, L.acu[2] + ev.ly >>,
              !.kind = "move"]

\* raw_main, lines 1092-1152: the decoding of one event with a device handle
OnDevice(cfg, ev, L) ==
    IF HasBit(ev.flags, RI_MOUSE_WHEEL) THEN OnWheel(cfg, ev, L)
    ELSE IF HasBit(ev.flags, RI_MOUSE_BUTTON_DOWN) THEN OnDown(cfg, ev, L)
    ELSE IF HasBit(ev.flags, RI_MOUSE_BUTTON_UP) THEN OnUp(cfg, ev, L)
    ELSE IF ev.flags = 0 /\ L.state.is_button_scrolling THEN OnMove(cfg, ev, L)
    ELSE L

\* Faulty variant: the tick leaves the accumulator as it is
DrainKeeps(acu) == acu

\* raw_main, line 1169: the accumulator after a tick
AfterDrain(acu) == <<0, 0>>

\* Faulty variant: a refused batch undoes the tick
RollbackOnFail(before, after, ok) == IF ok THEN after ELSE before

\* flush, lines 180-186, and raw_main, lines 1164-1170: the value SendInput
\* returns is not looked at, the tick ends the same way whatever it was
TickAfterFlush(before, after, ok) == after

\* SendInput takes the batch or refuses it
SendInputOutcomes(bat) == IF bat = <<>> THEN {TRUE} ELSE BOOLEAN

\* raw_main, lines 1157-1172: the end of an iteration.  When the tick is due
\* the accumulator is drained through step and flush.  L is what the handler
\* of the message left, what is "input", "timer" or "posted".
EndOfIteration(cfg, L, dt, what) ==
    LET due  == TickDue(dt)
        v1   == StepAdd(cfg, L.state, L.acu)
        send == StepSend(cfg, v1, dt)
        bat  == IF due THEN FlushBatch(send) ELSE <<>>
        \* what the handler added to the accumulator, less what it reset
        put  == << L.acu[1] - scroll_acu[1], L.acu[2] - scroll_acu[2] >>
        \* what the tick passes to step
        got  == IF due THEN L.acu ELSE <<0, 0>>
        \* velocity, accumulator and timestamp before and after the tick
        before == [vel |-> L.state.vel, acu |-> L.acu, stamp |-> FALSE]
        after  == [vel |-> StepVel(cfg, v1, dt), acu |-> AfterDrain(L.acu),
                   stamp |-> TRUE]
    IN  \E ok \in SendInputOutcomes(bat) :
        LET end == IF due THEN TickAfterFlush(before, after, ok) ELSE before
        IN
        /\ state' = [L.state EXCEPT !.vel = end.vel]
        /\ clip' = IF due THEN StepClip(L.state, L.clip) ELSE L.clip
        /\ scroll_acu' = end.acu
        /\ timer' = L.timer
        /\ rh' = [rh EXCEPT
                    !.devSeen = IF what = "input" THEN @ + 1 ELSE @,
                    !.timers = IF what = "timer" THEN @ + 1 ELSE @,
                    !.handled = @ \/ what = "input",
                    !.nodev = FALSE,
                    !.ticked = @ \/ due,
                    !.sent = @ \/ bat # <<>>,
                    !.keys = @ \/ L.keys > 0,
                    !.pairs = @ + L.keys,
                    !.lifts = @ + L.lift,
                    !.owed = << @[1] + put[1] - got[1], @[2] + put[2] - got[2] >>,
                    !.snapped = @ \/ (due /\ v1 # <<0, 0>> /\ end.vel = <<0, 0>>),
                    !.failed = @ \/ ~ok,
                    !.last = [ev |-> IF what = "input" THEN L.kind ELSE what,
                              vel0 |-> L.state.vel,
                              acu |-> L.acu,
                              due |-> due,
                              dt |-> IF due THEN dt ELSE 0,
                              add |-> IF due
                                      THEN << v1[1] - L.state.vel[1],
                                              v1[2] - L.state.vel[2] >>
                                      ELSE <<0, 0>>,
                              batch |-> bat,
                              ok |-> ok,
                              stamp |-> end.stamp,
                              clipIn |-> L.clip]]

\* The gate of lines 1066-1071 and the continue of lines 1083-1089: the
\* iteration ends without decoding and without the tick.
SkipIteration(what) ==
    /\ rh' = [rh EXCEPT
                !.devSeen = IF what = "ignored" THEN @ + 1 ELSE @,
                !.ready = @ \/ what = "ready",
                !.ignored = @ \/ what = "ignored"]
    /\ UNCHANGED <<state, scroll_acu, timer, clip>>

\* Faulty variant: a notch without a device handle is counted
SkipNoDeviceCounts(ev) ==
    /\ rh' = [rh EXCEPT !.devSeen = @ + 1, !.nodev = TRUE]
    /\ clip' = clip
    /\ scroll_acu' = << scroll_acu[1],
                        scroll_acu[2]
                          + TruncDiv(ev.data * GLOBAL_CONFIG.sens_y, WHEEL_DELTA) >>
    /\ UNCHANGED <<state, timer>>

\* raw_main, lines 1083-1089: an event without a device handle
SkipNoDevice(ev) ==
    /\ rh' = [rh EXCEPT !.devSeen = @ + 1, !.nodev = TRUE]
    /\ clip' = IF unclip_pending /\ HasBit(ev.flags, RI_MOUSE_BUTTON_UP)
               THEN NoClip ELSE clip
    /\ UNCHANGED <<state, scroll_acu, timer>>

\* Faulty variant: the loop never ignores
NeverIgnoring(active) == FALSE

\* raw_main, line 1066: the loop ignores what it reads until readiness
Ignoring(active) == ~active

\* GetMessageA returns WM_INPUT (posted thread messages come first)
InputOf(n, evs, dts) ==
    /\ Running /\ rawpc = "loop"
    /\ rawQ = <<>>
    /\ rh.devSeen < n
    /\ \E ev \in evs, dt \in dts :
        IF Ignoring(hook_active) THEN
            SkipIteration("ignored")
        ELSE IF ev.got /\ ~ev.dev THEN
            SkipNoDevice(ev)
        ELSE
            EndOfIteration(GLOBAL_CONFIG,
                           IF ev.got
                           THEN OnDevice(GLOBAL_CONFIG, ev,
                                         Locals(state, scroll_acu, timer, clip))
                           ELSE Locals(state, scroll_acu, timer, clip),
                           dt, "input")
    /\ UNCHANGED <<mainVars, sharedVars, rawInst, rawpc, rawQ, hwnd,
                   registered, hook_active, hookVars, hookLast, lk, mh>>

RawInput == InputOf(MaxDev, DevEvents, DtSet)

\* GetMessageA returns WM_TIMER (only while the timer is set)
TimerOf(n, dts) ==
    /\ Running /\ rawpc = "loop"
    /\ rawQ = <<>>
    /\ timer # 0
    /\ rh.timers < n
    /\ \E dt \in dts :
        IF Ignoring(hook_active) THEN SkipIteration("early")
        ELSE EndOfIteration(GLOBAL_CONFIG,
                            Locals(state, scroll_acu, timer, clip), dt, "timer")
    /\ UNCHANGED <<mainVars, sharedVars, rawInst, rawpc, rawQ, hwnd,
                   registered, hook_active, hookVars, hookLast, lk, mh>>

RawTimer == TimerOf(MaxTicks, DtSet)

\* The events of a gesture: a notch, the trigger pressed at one of two
\* places, released, and drag motion
KinEvents ==
    { DevEv(TRUE, TRUE, RI_MOUSE_WHEEL, WHEEL_DELTA, 0, 0, 7, 9),
      DevEv(TRUE, TRUE, RI_MOUSE_BUTTON_DOWN, 0, 0, 0, 7, 9),
      DevEv(TRUE, TRUE, RI_MOUSE_BUTTON_DOWN, 0, 0, 0, 3, 4),
      DevEv(TRUE, TRUE, RI_MOUSE_BUTTON_UP, 0, 0, 0, 7, 9),
      DevEv(TRUE, TRUE, 0, 0, 0, 50, 7, 9) }

KinInput == InputOf(MaxKinDev, KinEvents, DtSet)
KinTimer == TimerOf(MaxKinTicks, DtSet)

\* A drag that pans: a notch, the trigger pressed and released, motion to
\* the right and motion down and to the right
PanEvents ==
    { DevEv(TRUE, TRUE, RI_MOUSE_WHEEL, WHEEL_DELTA, 0, 0, 7, 9),
      DevEv(TRUE, TRUE, RI_MOUSE_BUTTON_DOWN, 0, 0, 0, 7, 9),
      DevEv(TRUE, TRUE, RI_MOUSE_BUTTON_UP, 0, 0, 0, 7, 9),
      DevEv(TRUE, TRUE, 0, 0, 50, 0, 7, 9),
      DevEv(TRUE, TRUE, 0, 0, 50, 50, 7, 9) }

PanInput == InputOf(MaxKinDev, PanEvents, DtSet)

\* step, line 114: GetClipCursor reports what any program has set.  Another
\* program clears the confinement while the loop runs.
ClipFromOutside ==
    /\ Running /\ rawpc = "loop"
    /\ clip # NoClip
    /\ clip' = NoClip
    /\ UNCHANGED <<mainVars, sharedVars, rawVars, hookVars, hookLast, lk, mh,
                   rh>>

\* followed by its tick, and the trigger goes up
DragScript ==
    << DevEv(TRUE, TRUE, RI_MOUSE_BUTTON_DOWN, 0, 0, 0, 7, 9),
       DevEv(TRUE, TRUE, 0, 0, 0, 50, 7, 9),
       DevEv(TRUE, TRUE, 0, 0, 0, 50, 7, 9),
       DevEv(TRUE, TRUE, 0, 0, 0, 50, 7, 9),
       DevEv(TRUE, TRUE, 0, 0, 0, 50, 7, 9),
       DevEv(TRUE, TRUE, 0, 0, 0, 50, 7, 9),
       DevEv(TRUE, TRUE, RI_MOUSE_BUTTON_UP, 0, 0, 0, 7, 9) >>

\* Ticks of 10.1 ms
DragDt == {101}

\* The drag reaches a capture thread that is ready, event by event; the
\* timer messages that follow it drive the decay
DragInput ==
    /\ hook_active
    /\ rh.devSeen < Len(DragScript)
    /\ InputOf(Len(DragScript), {DragScript[rh.devSeen + 1]}, DragDt)
DragTimer ==
    /\ rh.devSeen = Len(DragScript)
    /\ TimerOf(MaxDecayTicks, DragDt)

\* raw_main, lines 1066-1071: the readiness gate, on a posted message
GateOpens(msg) == msg.m = WM_HOOK_STARTED

\* GetMessageA returns a posted thread message: WM_QUIT ends the loop (the
\* locals, and what the history says of the loop, die with it), anything
\* else passes the gate of lines 1066-1071.
RawPosted ==
    /\ Running /\ rawpc = "loop"
    /\ rawQ # <<>>
    /\ LET msg == Head(rawQ) IN
        IF msg.m = WM_QUIT THEN
            /\ rawpc' = AfterLoop
            /\ rawQ' = <<>>
            /\ hook_active' = FALSE
            /\ state' = NewState
            /\ scroll_acu' = <<0, 0>>
            /\ timer' = 0
            /\ clip' = clip
            /\ rh' = [rh EXCEPT !.devSeen = 0, !.timers = 0, !.ready = FALSE,
                                !.ignored = FALSE, !.nodev = FALSE,
                                !.handled = FALSE, !.ticked = FALSE,
                                !.sent = FALSE, !.keys = FALSE,
                                !.pairs = 0, !.lifts = 0, !.owed = <<0, 0>>,
                                !.snapped = FALSE, !.failed = FALSE,
                                !.last = NewLast]
        ELSE IF Ignoring(hook_active) THEN
            /\ rawpc' = rawpc
            /\ rawQ' = Tail(rawQ)
            /\ hook_active' = GateOpens(msg)
            /\ SkipIteration(IF msg.m = WM_HOOK_STARTED THEN "ready" ELSE "gate")
        ELSE
            /\ rawpc' = rawpc
            /\ rawQ' = Tail(rawQ)
            /\ hook_active' = hook_active
            /\ \E dt \in DtSet :
                EndOfIteration(GLOBAL_CONFIG,
                               Locals(state, scroll_acu, timer, clip),
                               dt, "posted")
    /\ UNCHANGED <<mainVars, sharedVars, rawInst, hwnd, registered, hookVars,
                   hookLast, lk, mh>>

\* start, posted thread messages and teardown
RawLifeNext ==
    \/ RawDpi
    \/ RawWindow
    \/ RawRegister
    \/ RawSpawn
    \/ RawNotify
    \/ RawPosted
    \/ RawTdHook
    \/ RawTdUnreg
    \/ RawTdWindow
    \/ RawTdPost

\* device input and the tick timer
RawDevNext ==
    \/ RawInput
    \/ RawTimer

----------------------------------------------------------------------------
(* The filter at work *)

HC_ACTION    == 0
WM_MOUSEMOVE == 512     \* 0x200

\* The events the system offers to the installed filter
HookEvents ==
    { [code |-> c, w_param |-> w, l_param |-> [flags |-> f, dw_extra_info |-> x]] :
        c \in {HC_ACTION, -1},
        w \in {WM_MOUSEMOVE, WM_MBUTTONDOWN, WM_MBUTTONUP},
        f \in 0 .. 4,
        x \in {Marker, "0", "other"} }

\* The system calls hook_proc of an installed filter with a mouse event
FilterEvent ==
    /\ Running
    /\ \E i \in Insts : hookpc[i] \in HookInstalledPcs
    /\ \E ev \in HookEvents : hookLast' = << [ev |-> ev, out |-> hook_proc(ev)] >>
    /\ UNCHANGED <<mainVars, sharedVars, rawVars, hookVars, clip, mh, rh, lk>>

----------------------------------------------------------------------------
(* The threads taking the locks *)

LkHead(t) == Head(lk.prog[t])
LkPop(t) == [lk.prog EXCEPT ![t] = Tail(@)]

\* main enters main() and, at line 629, takes its next message or leaves
\* the loop
LkMainBegin ==
    /\ lk.main = "boot"
    /\ \E p \in MainBootSteps :
        lk' = [lk EXCEPT !.prog["main"] = p, !.main = "loop"]
    /\ UNCHANGED <<mainVars, sharedVars, rawVars, hookVars, clip, hookLast,
                   mh, rh>>

LkMainGetMessage ==
    /\ lk.main = "loop" /\ lk.prog["main"] = <<>>
    /\ \/ \E p \in MainHandlerSteps : lk' = [lk EXCEPT !.prog["main"] = p]
       \/ lk' = [lk EXCEPT !.prog["main"] = MainExitSteps, !.main = "exit"]
    /\ UNCHANGED <<mainVars, sharedVars, rawVars, hookVars, clip, hookLast,
                   mh, rh>>

\* the process lives until main has run its cleanup
LkRunning == ~(lk.main = "exit" /\ lk.prog["main"] = <<>>)

\* Mutex::lock returns once the lock is free
LkAcquire(t) ==
    /\ LkRunning /\ lk.prog[t] # <<>>
    /\ LkHead(t).k = "acq"
    /\ lk.owner[LkHead(t).x] = "none"
    /\ lk' = [lk EXCEPT !.owner[LkHead(t).x] = t, !.prog = LkPop(t)]
    /\ UNCHANGED <<mainVars, sharedVars, rawVars, hookVars, clip, hookLast,
                   mh, rh>>

\* one read or write of the value
LkUse(t) ==
    /\ LkRunning /\ lk.prog[t] # <<>>
    /\ LkHead(t).k = "use"
    /\ lk' = [lk EXCEPT !.acc[t] = @ + 1, !.prog = LkPop(t)]
    /\ UNCHANGED <<mainVars, sharedVars, rawVars, hookVars, clip, hookLast,
                   mh, rh>>

\* PostThreadMessageA or CloseHandle: neither waits
LkCall(t) ==
    /\ LkRunning /\ lk.prog[t] # <<>>
    /\ LkHead(t).k = "call"
    /\ lk' = [lk EXCEPT !.prog = LkPop(t)]
    /\ UNCHANGED <<mainVars, sharedVars, rawVars, hookVars, clip, hookLast,
                   mh, rh>>

\* the guard is dropped
LkRelease(t) ==
    /\ LkRunning /\ lk.prog[t] # <<>>
    /\ LkHead(t).k = "rel"
    /\ lk' = [lk EXCEPT !.owner[LkHead(t).x] = "none", !.acc[t] = 0,
                        !.prog = LkPop(t)]
    /\ UNCHANGED <<mainVars, sharedVars, rawVars, hookVars, clip, hookLast,
                   mh, rh>>

\* CreateThread: the new thread starts, unless the previous one of its kind
\* has not returned yet (one thread of a kind is followed at a time)
LkSpawn(t) ==
    /\ LkRunning /\ lk.prog[t] # <<>>
    /\ LkHead(t).k = "spawn"
    /\ LET u == LkHead(t).x IN
        IF lk.prog[u] = <<>>
        THEN \E p \in StepsOf(u) :
                lk' = [lk EXCEPT !.prog = [LkPop(t) EXCEPT ![u] = p]]
        ELSE lk' = [lk EXCEPT !.prog = LkPop(t)]
    /\ UNCHANGED <<mainVars, sharedVars, rawVars, hookVars, clip, hookLast,
                   mh, rh>>

\* GetMessageA of the capture thread or of the filter worker returns
LkGetMessage(t) ==
    /\ LkRunning /\ lk.prog[t] # <<>>
    /\ LkHead(t).k = "getmsg"
    /\ lk' = [lk EXCEPT !.prog = LkPop(t)]
    /\ UNCHANGED <<mainVars, sharedVars, rawVars, hookVars, clip, hookLast,
                   mh, rh>>

LockNext ==
    \/ LkMainBegin
    \/ LkMainGetMessage
    \/ \E t \in LockThreads :
        \/ LkAcquire(t)
        \/ LkUse(t)
        \/ LkCall(t)
        \/ LkRelease(t)
        \/ LkSpawn(t)
        \/ LkGetMessage(t)

\* The three threads as far as the locks see them
LockSpec == Init /\ [][LockNext]_vars

----------------------------------------------------------------------------
(* Specifications *)

\* The threads of the program, the user's requests and the pointer device
Next ==
    \/ MainNext
    \/ UserNext
    \/ RawLifeNext
    \/ RawDevNext
    \/ HookNext

Spec == Init /\ [][Next]_vars

\* The lifecycle alone: no device input reaches the capture thread
LifeNext ==
    \/ MainNext
    \/ UserNext
    \/ RawLifeNext
    \/ HookNext

LifeSpec == Init /\ [][LifeNext]_vars

\* The lifecycle with every thread scheduled: main, the capture thread and
\* the filter workers each take their next step when one stays possible;
\* the user is never obliged to issue a command.
FairLifeSpec ==
    /\ LifeSpec
    /\ WF_vars(MainNext)
    /\ WF_vars(RawLifeNext)
    /\ WF_vars(HookNext)

\* The lifecycle with the settings dialog saving new options
CfgNext ==
    \/ LifeNext
    \/ SaveCmd

CfgSpec == Init /\ [][CfgNext]_vars

\* One capture thread at work: the user may pause it or quit, never resumes
CaptureNext ==
    \/ MainNext
    \/ Pause
    \/ Quit
    \/ RawLifeNext
    \/ RawDevNext
    \/ HookNext

CaptureSpec == Init /\ [][CaptureNext]_vars

\* One capture thread followed through a gesture, started with any of the
\* option files
KinInit == \E file \in {<<>>} \cup { <<f>> : f \in KinIniSet } : InitWith(file)

KinNext ==
    \/ MainNext
    \/ Pause
    \/ Quit
    \/ RawLifeNext
    \/ KinInput
    \/ KinTimer
    \/ HookNext

KinSpec == KinInit /\ [][KinNext]_vars

\* One capture thread through a sustained drag and the decay after it, with
\* sensitivity 1 and decay 3, momentum on lift enabled or not
DragIniSet ==
    { [decay |-> 3, sensY |-> 1, sensX |-> 0, stepY |-> 120, stepX |-> 120,
       flick |-> f, think |-> 0] : f \in {0, 1} }

DragInit == \E f \in DragIniSet : InitWith(<<f>>)

DragNext ==
    \/ MainNext
    \/ Pause
    \/ Quit
    \/ RawLifeNext
    \/ DragInput
    \/ DragTimer
    \/ HookNext

DragSpec == DragInit /\ [][DragNext]_vars

\* One capture thread with both axes enabled, panning, while other programs
\* touch the pointer confinement; the user may pause it or quit
PanIniSet ==
    { [decay |-> 3, sensY |-> 18, sensX |-> 18, stepY |-> 120, stepX |-> 120,
       flick |-> 1, think |-> 0] }

PanNext ==
    \/ MainNext
    \/ Pause
    \/ Quit
    \/ RawLifeNext
    \/ PanInput
    \/ KinTimer
    \/ ClipFromOutside
    \/ HookNext

PanSpec == (\E f \in PanIniSet : InitWith(<<f>>)) /\ [][PanNext]_vars

FilterNext ==
    \/ MainNext
    \/ Pause
    \/ Quit
    \/ RawLifeNext
    \/ HookNext
    \/ FilterEvent

FilterSpec == Init /\ [][FilterNext]_vars

----------------------------------------------------------------------------
(* Properties *)

TeardownPcs == {"td_hook", "td_unreg", "td_window", "td_post", "done"}

Reverse(s) == [k \in 1 .. Len(s) |-> s[Len(s) + 1 - k]]
IsPrefix(a, b) == Len(a) <= Len(b) /\ SubSeq(b, 1, Len(a)) = a

IsTrigger(ev) == ev.w_param \in {WM_MBUTTONDOWN, WM_MBUTTONUP}

\* C1 (LifeSpec).  A resume issued while a stop of the stored capture thread
\* is pending (a quit was posted to it, main has not yet handled its
\* WM_RAW_STOPPED) leads to exactly one restart: start_thread is not called
\* before main handles that WM_RAW_STOPPED, is called exactly once when it
\* does, and is not called again for that resume; it creates at most one
\* capture thread.
C1_ExactlyOneRestart ==
    /\ mh.armed = "wait" => (mh.restarts = 0 /\ mh.spawned = 0)
    /\ mh.armed = "done" => (mh.restarts = 1 /\ mh.spawned <= 1)

\* C1: the restart has happened and the new capture thread runs its loop
C1_Restarted ==
    /\ mh.armed = "done"
    /\ mh.restarts = 1
    /\ mh.spawned = 1
    /\ rawInst >= 2
    /\ rawpc = "loop"

\* C2 (LifeSpec).  When main has handled the WM_RAW_STOPPED of a capture
\* thread, it has started a new one if and only if the last pause / resume
\* request sent to that thread was a resume (no request: no restart); the
\* pending flag is then false, and at most one thread was created by the step.
C2_LatestRequestDecides ==
    mh.stopLog # <<>> =>
        LET e == mh.stopLog[1] IN
        /\ e.started <=> (e.req = "resume")
        /\ RAW_THREAD_PENDING = FALSE
        /\ rawInst - e.inst \in {0, 1}
        /\ (rawInst - e.inst = 1) => e.started

\* C2: a sequence of requests ending in resume, answered by one new thread
C2_ResumeLastRestarted ==
    /\ mh.stopLog # <<>>
    /\ mh.stopLog[1].req = "resume"
    /\ mh.stopLog[1].started
    /\ mh.armed = "done"
    /\ rawInst = mh.stopLog[1].inst + 1

\* C3 (CaptureSpec), the statement of the claim: once the capture thread has
\* posted WM_RAW_STOPPED the pointer is not confined.
C3_ClipClearedOnExit ==
    rh.stoppedPosted => clip = NoClip

\* C4 (LifeSpec), the statement of the claim: when the capture thread has
\* posted WM_RAW_STOPPED, the filter worker it spawned has uninstalled its
\* filter and returned.
C4_WorkerJoinedBeforeStopped ==
    (rh.stoppedPosted /\ rawInst \in Insts /\ hookpc[rawInst] # "none")
        => hookpc[rawInst] = "done"

\* C5 (Spec).  A capture thread one of whose start steps failed never posts
\* WM_RAW_STARTED, never reaches its message loop (it reads no device event,
\* evaluates no tick, emits nothing), goes through its teardown and has
\* posted WM_RAW_STOPPED when it returns; main, handling that WM_RAW_STOPPED,
\* starts a replacement only if the last request sent to the thread was a
\* resume.
C5_FailFast ==
    /\ rh.failedAt # "none" =>
        /\ ~rh.startedPosted
        /\ rawpc \in TeardownPcs \ {"td_hook"}
        /\ (rawpc = "done") <=> rh.stoppedPosted
        /\ rh.devSeen = 0 /\ rh.timers = 0
        /\ ~rh.ignored /\ ~rh.handled /\ ~rh.ticked /\ ~rh.sent /\ ~rh.keys
        /\ ~hook_active /\ state = NewState /\ scroll_acu = <<0, 0>>
    /\ (mh.stopLog # <<>> /\ mh.stopLog[1].failed /\ mh.stopLog[1].started)
        => mh.stopLog[1].req = "resume"

\* C5: the spawn of the filter worker failed, the stop was reported and main
\* handled it without starting a replacement
C5_FailedStartReported ==
    /\ rh.failedAt = "spawn"
    /\ rh.stoppedPosted
    /\ mh.stopLog # <<>>
    /\ mh.stopLog[1].failed
    /\ ~mh.stopLog[1].started
    /\ trayStatus = "Inactive"

\* C6 (LifeSpec).  After a failed start step the capture thread releases what
\* it had acquired in the reverse order of acquisition, and all of it (no
\* window, no raw input registration left) before it posts WM_RAW_STOPPED,
\* which is the last thing it does.
C6_UnwindOnFailure ==
    rh.failedAt # "none" =>
        /\ IsPrefix(rh.rel, Reverse(rh.acq))
        /\ rawpc \in {"td_post", "done"} =>
              (rh.rel = Reverse(rh.acq) /\ ~hwnd /\ ~registered)
        /\ rh.stoppedPosted => rawpc = "done"

\* C6: the spawn failed with the window and the registration in place, both
\* were released and the stop was posted
C6_UnwoundAfterSpawnFail ==
    /\ rh.failedAt = "spawn"
    /\ rh.acq = <<"window", "rawinput">>
    /\ rh.rel = <<"rawinput", "window">>
    /\ rh.stoppedPosted

\* C7 (CaptureSpec).  As long as the loop of the capture thread has not read
\* a WM_HOOK_STARTED, the accumulator, the velocity, is_button_scrolling,
\* cancel_pending, the timer and the pointer confinement are as at the start
\* of the loop, no device event was decoded, no tick evaluated and nothing
\* injected.
C7_IgnoresUntilReady ==
    (rawpc = "loop" /\ ~rh.ready) =>
        /\ ~hook_active
        /\ state = NewState
        /\ scroll_acu = <<0, 0>>
        /\ timer = 0
        /\ clip = NoClip
        /\ ~rh.handled /\ ~rh.ticked /\ ~rh.sent /\ ~rh.keys

\* C7: a device event arrived before readiness and was ignored
C7_EventIgnored ==
    /\ rawpc = "loop"
    /\ ~rh.ready
    /\ rh.ignored
    /\ rh.devSeen >= 1

\* C8 (LifeSpec), the statement of the claim as a final result: when the
\* filter worker of the running capture thread has posted its readiness
\* signal and waits in its loop, and the capture thread has read all that was
\* posted to it and was not told to quit, the capture thread is active.
C8_ReadinessReachesParent ==
    \A i \in Insts :
        ( /\ rawInst = i
          /\ rawpc = "loop"
          /\ rawQ = <<>>
          /\ hookpc[i] = "loop"
          /\ ~hookQuit[i] )
        => hook_active

\* C9 (FilterSpec).  With the filter installed, a trigger-button down or up
\* whose dw_extra_info is not the marker is swallowed (hook_proc returns 1,
\* the next hook is not called), and whatever is passed to the next hook has
\* the code, w_param and l_param hook_proc received.
C9_UnmarkedSwallowed ==
    hookLast # <<>> =>
        LET e == hookLast[1] IN
        /\ (IsTrigger(e.ev) /\ e.ev.l_param.dw_extra_info # Marker)
              => (e.out.ret = "1" /\ e.out.next = <<>>)
        /\ e.out.next # <<>> => e.out.next = << e.ev >>

\* C9: an injected trigger-button event without the marker was swallowed
C9_InjectedUnmarkedSwallowed ==
    /\ hookLast # <<>>
    /\ IsTrigger(hookLast[1].ev)
    /\ hookLast[1].ev.l_param.dw_extra_info # Marker
    /\ hookLast[1].ev.l_param.flags % 4 # 0
    /\ hookLast[1].out.next = <<>>

\* C10 (FilterSpec), the statement of the claim: every trigger-button down or
\* up whose dw_extra_info is the marker is passed unchanged to the next hook,
\* whatever its flags.
C10_MarkedAlwaysForwarded ==
    hookLast # <<>> =>
        LET e == hookLast[1] IN
        (IsTrigger(e.ev) /\ e.ev.l_param.dw_extra_info = Marker)
            => e.out.next = << e.ev >>

\* C10 (FilterSpec), amended.  A trigger-button down or up whose
\* dw_extra_info is the marker is passed unchanged to the next hook if and
\* only if one of its two injected flags (flags & 3) is set; with neither set
\* it is swallowed.
C10_MarkedInjectedForwarded ==
    hookLast # <<>> =>
        LET e == hookLast[1] IN
        (IsTrigger(e.ev) /\ e.ev.l_param.dw_extra_info = Marker) =>
            /\ (e.ev.l_param.flags % 4 # 0) => e.out.next = << e.ev >>
            /\ (e.ev.l_param.flags % 4 = 0) =>
                  (e.out.ret = "1" /\ e.out.next = <<>>)

\* C10: a marked, injected trigger-button event was passed on
C10_MarkedForwarded ==
    /\ hookLast # <<>>
    /\ IsTrigger(hookLast[1].ev)
    /\ hookLast[1].ev.l_param.dw_extra_info = Marker
    /\ hookLast[1].ev.l_param.flags % 4 # 0
    /\ hookLast[1].out.next = << hookLast[1].ev >>

\* C11 (LifeSpec).  What a filter worker does to its filter is, in order:
\* install, report readiness, read a WM_QUIT, uninstall, post its exit
\* notification.  It leaves its loop only after reading a WM_QUIT; when the
\* installation succeeded the filter is uninstalled before the exit
\* notification is posted and the worker returns; the filter is in place only
\* while the worker that installed it is alive.
C11_UnhookBeforeExit ==
    \A i \in Insts :
        LET full == <<"install", "ready", "quit", "unhook", "exit">> IN
        /\ hh[i] = <<"exit">> \/ IsPrefix(hh[i], full)
        /\ hookpc[i] \in {"unhook", "exit", "done"} =>
              (hh[i] = <<>> \/ hh[i] = <<"exit">> \/ Len(hh[i]) >= 3)
        /\ hookpc[i] = "done" => hh[i] \in {<<"exit">>, full}
        /\ (Len(hh[i]) \in 1 .. 3 /\ hh[i] # <<"exit">>)
              => hookpc[i] \in HookInstalledPcs

\* C11: a worker installed its filter, was told to quit, uninstalled the
\* filter and returned
C11_WorkerStopped ==
    \E i \in Insts :
        /\ hookpc[i] = "done"
        /\ hh[i] = <<"install", "ready", "quit", "unhook", "exit">>

----------------------------------------------------------------------------
(* The gesture and the kinetics *)

\* The places where the model presses the trigger
DownPlaces == { <<ev.cx, ev.cy>> : ev \in KinEvents }

\* C12: while the capture loop runs, from a trigger button-down to the
\* matching button-up the confinement rectangle in force is the one recorded
\* at that button-down, one pixel wide and high at the pointer's place; once
\* a button-up was handled the pointer is unconfined until the next
\* button-down.
C12_ConfinedWhileDragging ==
    rawpc = "loop" =>
        /\ state.is_button_scrolling =>
              /\ clip = state.rect
              /\ \E p \in DownPlaces :
                    state.rect = << p[1], p[2], p[1] + 1, p[2] + 1 >>
        /\ (~state.is_button_scrolling /\ rh.lifts > 0) => clip = NoClip

\* C12: a drag that began at the second place went on over a motion event
\* and a tick, still confined there
C12_DragConfined ==
    /\ rawpc = "loop"
    /\ state.is_button_scrolling
    /\ rh.last.ev = "move" /\ rh.last.due
    /\ clip = <<3, 4, 4, 5>>

\* C13: when a trigger button-up was handled with flick = 0, the velocity and
\* the accumulator are both zero and the tick timer is stopped, whatever drag
\* motion was accumulated since the last tick (the values the handler leaves,
\* before the tick of the same iteration).
C13_LiftStopsEverything ==
    (rawpc = "loop" /\ rh.last.ev = "up" /\ GLOBAL_CONFIG.flick = 0) =>
        /\ rh.last.vel0 = <<0, 0>>
        /\ rh.last.acu = <<0, 0>>
        /\ timer = 0

\* C14: a button-up injects the keystroke pair exactly when cancel_pending
\* was set, and clears it: the pairs injected are as many as the button-ups
\* that ended a drag (one per gesture, none for a button-up without a
\* button-down before it), cancel_pending is clear after a button-up, and
\* is_button_scrolling equals cancel_pending after every handled event.
C14_OnePairPerGesture ==
    rawpc = "loop" =>
        /\ state.is_button_scrolling = state.cancel_pending
        /\ rh.pairs = rh.lifts
        /\ rh.keys = (rh.pairs > 0)
        /\ rh.last.ev = "up" => ~state.cancel_pending

\* C14: three events were handled, the last one a button-up, and one pair
\* was injected
C14_GestureEnded ==
    /\ rawpc = "loop"
    /\ rh.devSeen = 3
    /\ rh.last.ev = "up"
    /\ rh.pairs = 1
    /\ ~state.cancel_pending

\* C15: the accumulator is (0, 0) after every tick, and it holds exactly the
\* deltas that were added (wheel or drag motion) and neither reset by a
\* button-down nor passed to step yet: every delta is passed in one tick, none
\* in two.
C15_DrainedOnce ==
    rawpc = "loop" =>
        /\ rh.owed = scroll_acu
        /\ rh.last.due => scroll_acu = <<0, 0>>

\* C15: a tick passed a non-zero accumulator to step and left it empty
C15_DeltaPassed ==
    /\ rawpc = "loop"
    /\ rh.last.due
    /\ rh.last.acu # <<0, 0>>
    /\ scroll_acu = <<0, 0>>

\* |v|^2 >= 0.1
Moving(v) ==
    \/ Abs(v[1]) >= VelScale
    \/ Abs(v[2]) >= VelScale
    \/ (v[1] * v[1] + v[2] * v[2]) * 10 >= VelScale * VelScale

\* C16: after every tick the velocity is exactly (0, 0) or its squared
\* magnitude is at least 0.1, and a tick that starts from velocity (0, 0) with
\* an empty accumulator leaves the velocity (0, 0) and emits nothing.
C16_RestIsIdempotent ==
    (rawpc = "loop" /\ rh.last.due) =>
        /\ state.vel = <<0, 0>> \/ Moving(state.vel)
        /\ (rh.last.vel0 = <<0, 0>> /\ rh.last.acu = <<0, 0>>) =>
              (state.vel = <<0, 0>> /\ rh.last.batch = <<>>)

\* C16: a tick snapped a decayed velocity to rest, and a later tick with no
\* input found it at rest and left it there
C16_RestedAgain ==
    /\ rawpc = "loop"
    /\ rh.snapped
    /\ rh.last.due
    /\ rh.last.vel0 = <<0, 0>> /\ rh.last.acu = <<0, 0>>
    /\ state.vel = <<0, 0>>

\* dt seconds as a factor
DtFactor(dt) == (dt * FacScale) \div Qpf

\* C17: with decay 0 a tick emits the step v * dt (f1 = dt) and leaves the
\* velocity as step found it after adding the input (f0 = 1), up to the
\* rest-state snap.
C17_ZeroDecayEmits ==
    (rawpc = "loop" /\ rh.last.due /\ GLOBAL_CONFIG.decay = 0) =>
        LET v == << rh.last.vel0[1] + rh.last.add[1],
                    rh.last.vel0[2] + rh.last.add[2] >>
            f == DtFactor(rh.last.dt)
        IN  /\ state.vel = IF Moving(v) THEN v ELSE <<0, 0>>
            /\ rh.last.batch =
                  FlushBatch([nan |-> FALSE,
                              v |-> << MulFac(v[1], f), MulFac(v[2], f) >>])

\* C18: with sens_y 18 and decay 3, one wheel notch of 120 adds 18 to the
\* vertical velocity at the next tick, and that first tick, some 0.01 s after
\* the previous one, emits nothing and keeps the velocity.
C18_NotchAddsSensitivity ==
    (/\ rawpc = "loop"
     /\ GLOBAL_CONFIG.sens_y = 18 /\ GLOBAL_CONFIG.decay = 3
     /\ rh.devSeen = 1 /\ rh.timers = 0
     /\ rh.last.ev = "wheel" /\ rh.last.due) =>
        /\ rh.last.add = <<0, 18 * VelScale>>
        /\ rh.last.batch = <<>>
        /\ state.vel # <<0, 0>>

\* C21: when SendInput refuses a scroll batch the tick still completes: the
\* velocity is the one step computed (nothing is rolled back), the
\* accumulator is zero and the timestamp was advanced; the loop goes on.
C21_FailedBatchKeepsTick ==
    (rawpc = "loop" /\ rh.last.due /\ ~rh.last.ok) =>
        LET v == << rh.last.vel0[1] + rh.last.add[1],
                    rh.last.vel0[2] + rh.last.add[2] >>
        IN  /\ rh.last.batch # <<>>
            /\ state.vel = StepVel(GLOBAL_CONFIG, v, rh.last.dt)
            /\ scroll_acu = <<0, 0>>
            /\ rh.last.stamp

\* C21: after a refused batch a later tick was evaluated and its batch taken
C21_TickAfterFailure ==
    /\ rawpc = "loop"
    /\ rh.failed
    /\ rh.last.due /\ rh.last.ok
    /\ rh.last.batch # <<>>
    /\ scroll_acu = <<0, 0>>

\* The vertical step a tick emitted, 0 when it emitted nothing
BatchY(b) == IF b = <<>> THEN 0 ELSE b[1].data

\* A step of the model that is a timer tick after the drag ended, the
\* iteration before it having ticked too
TickAfterLift ==
    /\ rh.lifts = 1 /\ rh'.lifts = 1
    /\ rh.last.due
    /\ rh'.last.ev = "timer" /\ rh'.last.due
    /\ rh'.timers = rh.timers + 1

\* The drag of DragScript has ended and its thread is in its loop
DragEnded == rawpc = "loop" /\ rh.lifts = 1 /\ rh.devSeen = Len(DragScript)

\* C22 as stated: after the drag ended with a button-up, each tick that
\* emits a step emits a smaller one than the tick before it.
C22_StepsStrictlyDecrease ==
    [][ (TickAfterLift /\ rh'.last.batch # <<>>) =>
            BatchY(rh'.last.batch) < BatchY(rh.last.batch) ]_vars

\* Timer messages after which the velocity left by the drag is at rest
RestWithin == MaxDecayTicks - 10

\* C22: after the drag ended with a button-up, the step a tick emits is never
\* larger than the one of the tick before it, the velocity gets strictly
\* smaller at every tick until it is zero and then stays zero, and it is
\* zero once RestWithin timer messages were handled.
C22_StepsNeverIncrease ==
    /\ [][ TickAfterLift =>
             /\ BatchY(rh'.last.batch) <= BatchY(rh.last.batch)
             /\ state.vel[2] > 0 => state'.vel[2] < state.vel[2]
             /\ state.vel[2] = 0 => state'.vel[2] = 0 ]_vars
    /\ []((DragEnded /\ rh.timers >= RestWithin) => state.vel = <<0, 0>>)

\* C22: with momentum on lift, the velocity left by the drag decayed over
\* more than a hundred ticks and was snapped to zero by a tick
C22_MomentumDecayed ==
    /\ DragEnded
    /\ GLOBAL_CONFIG.flick = 1
    /\ rh.timers > 100
    /\ rh.snapped
    /\ rh.last.ev = "timer"
    /\ state.vel = <<0, 0>>

----------------------------------------------------------------------------
(* Shared state *)

\* The locks a thread holds
LkHeld(t) == { l \in LockNames : lk.owner[l] = t }

\* C19: the statics are read and written only by the thread that holds
\* their lock; a lock is held for one read or write, never while its holder
\* waits for a message; a thread that takes a lock holds no other; and a
\* thread that waits for a lock waits for a holder that is free to go on to
\* its release, so no interleaving of the three threads deadlocks.
C19_LocksNeverDeadlock ==
    \A t \in LockThreads :
        /\ Cardinality(LkHeld(t)) <= 1
        /\ lk.acc[t] <= 1
        /\ lk.prog[t] = <<>> => LkHeld(t) = {}
        /\ lk.prog[t] # <<>> =>
              LET p == LkHead(t) IN
              /\ p.k = "use" => lk.owner[p.x] = t
              /\ p.k \in {"getmsg", "spawn"} => LkHeld(t) = {}
              /\ p.k = "rel" => (lk.owner[p.x] = t /\ lk.acc[t] = 1)
              /\ p.k = "acq" =>
                    /\ LkHeld(t) = {}
                    /\ lk.owner[p.x] # "none" =>
                          LET u == lk.owner[p.x] IN
                          /\ lk.prog[u] # <<>>
                          /\ LkHead(u).k \in {"use", "call", "rel"}

\* C19: the filter worker waits for the lock of RAW_THREAD_ID while main
\* holds it over its PostThreadMessageA
C19_WorkerWaitsForMain ==
    /\ lk.owner["RAW_THREAD_ID"] = "main"
    /\ lk.prog["main"] # <<>> /\ LkHead("main").k = "call"
    /\ lk.prog["hook"] # <<>>
    /\ LkHead("hook").k = "acq" /\ LkHead("hook").x = "RAW_THREAD_ID"

\* C20: the configuration a capture thread reads is the one loaded when it
\* was created: GLOBAL_CONFIG is never written between the creation of a
\* capture thread and the moment it has posted WM_RAW_STOPPED, and all that
\* time it holds the values loaded at the creation.
C20_ConfigIsSnapshot ==
    /\ ~mh.liveWrite
    /\ (rawInst > 0 /\ ~rh.stoppedPosted) => GLOBAL_CONFIG = rh.cfg

\* C20: a second capture thread runs its loop on options that were saved
\* while the first was at work
C20_RestartedOnSavedOptions ==
    /\ rawInst = 2
    /\ rawpc = "loop"
    /\ GLOBAL_CONFIG # DefaultConfig
    /\ GLOBAL_CONFIG = rh.cfg

----------------------------------------------------------------------------
(* Restarts *)

\* C23: every WM_QUIT waiting in the queue of the current capture thread was
\* posted by main (pause, resume) or by the filter worker this very thread
\* created: the exit of the worker of an earlier capture thread never
\* reaches a later one.
C23_QuitFromOwnWorkerOrMain ==
    \A k \in 1 .. Len(rawQ) :
        rawQ[k].m = WM_QUIT => rawQ[k].from \in {0, rawInst}

\* C24: at most one capture thread has been created and has not yet posted
\* WM_RAW_STOPPED.  main creates a capture thread only while the stored handle
\* is empty and the previous thread has posted its WM_RAW_STOPPED, and, seen
\* between two handlers of main, the stored handle is set exactly when some
\* capture thread was started whose WM_RAW_STOPPED main has not handled yet.
StopUnhandled ==
    /\ rawInst > 0
    /\ \/ ~rh.stoppedPosted
       \/ \E k \in 1 .. Len(mainQ) : mainQ[k] = Msg(WM_RAW_STOPPED, rawInst)

C24_OneCaptureThread ==
    /\ ~mh.liveWrite
    /\ mainpc = "publish" => RAW_THREAD_HANDLE = 0
    /\ mainpc = "idle" => (RAW_THREAD_HANDLE # 0 <=> StopUnhandled)
    /\ RAW_THREAD_HANDLE # 0 => RAW_THREAD_HANDLE = rawInst

\* a second capture thread runs after the first one was stopped and handled
C24_SecondThreadRecorded ==
    /\ rawInst = 2
    /\ mainpc = "idle"
    /\ RAW_THREAD_HANDLE = 2
    /\ ~rh.stoppedPosted

\* C25: at most one filter is installed at any moment: the filter worker of
\* the previous capture thread has uninstalled its filter before the worker
\* of the next capture thread installs its own.
C25_OneFilterInstalled ==
    \A i, j \in Insts :
        (hookpc[i] \in HookInstalledPcs /\ hookpc[j] \in HookInstalledPcs)
            => i = j

\* C26: once the filter worker of a capture thread has returned (its
\* installation failed, or it left its loop), that capture thread ends and
\* posts WM_RAW_STOPPED to main, unless the process ends first.
C26_WorkerExitStopsCapture ==
    \A i \in Insts :
        (rawInst = i /\ hookpc[i] = "done")
            ~> (~Running \/ rawInst # i \/ rh.stoppedPosted)

\* C27: a capture thread posts WM_RAW_STARTED at most once and WM_RAW_STOPPED
\* once, the first before the second; every notification waiting in main's
\* queue comes from the latest capture thread, so those of an earlier thread
\* were handled before the next thread was created; and when no notification
\* waits, main shows Active exactly when the capture thread has reported its
\* start and not yet its stop.
Notified(what) == \E k \in 1 .. Len(mainQ) : mainQ[k].m = what

CaptureRuns == rawInst > 0 /\ rh.startedPosted /\ ~rh.stoppedPosted

C28_ColdResumeStartsOnce ==
    /\ [](mh.cold # <<>> =>
            LET e == mh.cold[1] IN
            /\ ~RAW_THREAD_PENDING
            /\ rawInst - e.inst \in {0, 1}
            /\ rawInst = e.inst => (mainQuit /\ mainpc = "idle")
            /\ rawInst = e.inst + 1 =>
                   (mainpc = "publish" /\ mainQuit = e.quit))
    /\ [](RAW_THREAD_HANDLE = 0 => ~RAW_THREAD_PENDING)
    /\ [][(~RAW_THREAD_PENDING /\ RAW_THREAD_PENDING')
              => (RAW_THREAD_HANDLE # 0 /\ mh'.lastReq = "resume")]_vars
    /\ [][(rawInst' # rawInst /\ Len(mainQ') < Len(mainQ))
              => (RAW_THREAD_PENDING /\ mh'.cold = <<>>)]_vars

\* a resume issued after the first capture thread had stopped and its
\* WM_RAW_STOPPED was handled has created the second capture thread
C28_ColdResumeStarted ==
    /\ mh.cold # <<>>
    /\ mh.cold[1].inst = 1
    /\ rawInst = 2
    /\ rawpc = "dpi"

\* a resume whose start failed: the process is asked to quit
C28_ResumeFailedQuits ==
    /\ mh.cold # <<>>
    /\ rawInst = mh.cold[1].inst
    /\ mainQuit

----------------------------------------------------------------------------
(* Confinement and batches *)

\* A step of the model that is an iteration of the capture loop whose tick
\* was evaluated
TickStep ==
    /\ rh'.devSeen + rh'.timers = rh.devSeen + rh.timers + 1
    /\ rh'.last.due

\* C29: a tick evaluated while is_button_scrolling is set and the confinement
\* in force differs from the recorded rectangle leaves the confinement equal
\* to that rectangle; a tick evaluated while is_button_scrolling is not set
\* leaves the confinement as it found it.
C29_TickRestoresConfinement ==
    [][TickStep =>
        /\ (state'.is_button_scrolling
              /\ GetClipCursor(rh'.last.clipIn) # state'.rect)
               => clip' = state'.rect
        /\ ~state'.is_button_scrolling => clip' = rh'.last.clipIn]_vars

\* a tick of a drag has found the confinement changed from outside and has
\* put the recorded rectangle back
C29_ConfinementRestored ==
    /\ rh.last.due
    /\ rh.last.ev = "timer"
    /\ state.is_button_scrolling
    /\ rh.last.clipIn # state.rect
    /\ clip = state.rect

\* The step a tick computed, recomputed from what the iteration recorded:
\* the velocity after the accumulator was added, times f1
SendOf(l) ==
    StepSend(GLOBAL_CONFIG,
             << l.vel0[1] + l.add[1], l.vel0[2] + l.add[2] >>, l.dt)

\* The wheel events of a batch with the given flag
Wheels(b, flag) == { k \in 1 .. Len(b) : b[k].flags = flag }

\* C30: an iteration hands at most one batch to SendInput, and only when its
\* tick is evaluated.  The batch holds exactly one vertical wheel event when
\* the vertical step truncated to an integer is not 0 and none otherwise, and
\* likewise one horizontal wheel event for the horizontal step; each event
\* carries its truncated step; there is no batch when both are 0.
C30_BatchMatchesStep ==
    LET l  == rh.last
        s  == SendOf(l)
        sx == AsI32(s.nan, s.v[1])
        sy == AsI32(s.nan, s.v[2])
        b  == l.batch
    IN  /\ ~l.due => b = <<>>
        /\ l.due =>
            /\ Cardinality(Wheels(b, "WHEEL")) = IF sy # 0 THEN 1 ELSE 0
            /\ Cardinality(Wheels(b, "HWHEEL")) = IF sx # 0 THEN 1 ELSE 0
            /\ \A k \in 1 .. Len(b) :
                /\ b[k].flags \in {"WHEEL", "HWHEEL"}
                /\ b[k].flags = "WHEEL" => b[k].data = sy
                /\ b[k].flags = "HWHEEL" => b[k].data = sx
            /\ (sx = 0 /\ sy = 0) <=> b = <<>>

\* a tick has emitted a batch of a vertical and a horizontal wheel event
C30_BothAxesEmitted ==
    /\ rh.last.due
    /\ Len(rh.last.batch) = 2
    /\ rh.last.batch[1].flags = "WHEEL"
    /\ rh.last.batch[2].flags = "HWHEEL"

\* a tick has emitted a batch of one horizontal wheel event alone
C30_HorizontalAlone ==
    /\ rh.last.due
    /\ Len(rh.last.batch) = 1
    /\ rh.last.batch[1].flags = "HWHEEL"

----------------------------------------------------------------------------
(* Events without a device handle *)

\* A step of the model in which the loop read a raw input event that carried
\* no device handle
NoDeviceStep ==
    /\ rh'.devSeen = rh.devSeen + 1
    /\ rh'.nodev

\* C31: an iteration of the loop that reads a raw input event without a device
\* handle leaves the accumulator, the velocity and its residue, is_button_
\* scrolling, cancel_pending, the recorded rectangle and the timer as they
\* were; it evaluates no tick and injects nothing.
C31_NoDeviceChangesNothing ==
    [][NoDeviceStep =>
        /\ scroll_acu' = scroll_acu
        /\ state' = state
        /\ timer' = timer
        /\ rh'.last = rh.last
        /\ rh'.ticked = rh.ticked /\ rh'.sent = rh.sent /\ rh'.keys = rh.keys
        /\ rh'.timers = rh.timers /\ rh'.owed = rh.owed
        /\ rh'.pairs = rh.pairs]_vars

\* the loop has emitted a scroll batch and then read a notch that carried no
\* device handle, as the injected scroll does
C31_InjectedNotchDropped ==
    /\ rawpc = "loop"
    /\ rh.nodev
    /\ rh.sent
    /\ rh.last.batch # <<>>
    /\ rh.devSeen = 2

====
